---- MODULE Spec2Model ----
(***************************************************************************)
(* MITHRA Energy Label Analyzer: the job pipeline.                         *)
(*                                                                         *)
(* Frontend: AnalysisEngine (the orchestrator of a run over table rows)    *)
(* and ApiClient (one logical request with retry and an in-flight          *)
(* registry).  JavaScript runs one task at a time, so every action below   *)
(* is one task: the code from one resumption up to the next await that     *)
(* waits on a timer, on the network or on the user, with the promise       *)
(* continuations (microtasks) it triggers.                                 *)
(*                                                                         *)
(* Backend: ScraperService (the browser, its pages, the idle timer) as it  *)
(* is called by the Express routes of server.js and by direct callers.     *)
(* Specification SpecScraper runs the backend on its own; the frontend     *)
(* specifications leave the backend in its initial state.  Specification   *)
(* SpecRateLimit runs respectRateLimit against a clock.                    *)
(***************************************************************************)
EXTENDS Integers, Sequences, FiniteSets, Bags, TLC

\* ---------------------------------------------------------------- bounds
NumRows == 4          \* rows of app.uploadedData
NumUrls == 2          \* distinct URLs among them
MaxStarts == 2        \* startAnalysis invocations in one behaviour
MaxEvents == 4        \* user clicks and events of the server in one
                      \* behaviour
MaxCalls == 2         \* calls of the scraper (HTTP requests, direct calls)
MaxFaults == 1        \* failed launches, lost browsers, failed navigations
MaxTicks == 12        \* time the clock runs, in ticks of 500 ms

\* ------------------------------------------------------ program constants
maxConcurrentRequests == 3
maxRetries == 2
maxAttempts == 3      \* navigation attempts of one scrapeEbayURL call
ebayMinDelay == 4     \* Math.max(DELAY_BETWEEN_REQUESTS, 2000) ms, in ticks
renderDelay == 6      \* the 3000 ms wait for dynamic content, in ticks

Rows == 1..NumRows
NoUrl == 0
Urls == 1..NumUrls
RunIds == 1..MaxStarts

Min2(a, b) == IF a <= b THEN a ELSE b

\* F(e) with e evaluated once, whatever the number of its uses in F.
Once(F(_), e) == CHOOSE r \in { F(x) : x \in {e} } : TRUE

\* ANALYSIS_STATUS values a row takes in the engine
PENDING == "Pending"
PROCESSING == "Processing"
COMPLETED == "Completed"
ERROR == "Error"

\* ------------------------------------------------------- error messages
MsgTimeout == "Request timeout - page took too long to load"
MsgInvalidUrl == "Invalid eBay URL format"
MsgRateLimit == "Rate limit exceeded - please wait"
MsgInitializing == "Server is still initializing. Please wait."
MsgStartingUp == "Server is starting up. Please wait and try again."
MsgNoUrl == "No URL found in row"

\* The messages performRequest throws: a timeout of the attempt, and the
\* "error" field of a 400, 429 or 503 response of the server.
RequestErrors == {MsgTimeout, MsgInitializing, MsgInvalidUrl, MsgRateLimit}

\* String.prototype.includes on the literal messages above (case-sensitive).
Includes(msg, pat) ==
    <<msg, pat>> \in { <<MsgTimeout, "timeout">>,
                       <<MsgInvalidUrl, "Invalid eBay URL">>,
                       <<MsgInitializing, "Server is still initializing">> }

\* msg.toLowerCase().includes(pat.toLowerCase()) on the same messages.
IncludesIgnoreCase(msg, pat) ==
    <<msg, pat>> \in { <<MsgTimeout, "timeout">>,
                       <<MsgInvalidUrl, "Invalid eBay URL">>,
                       <<MsgRateLimit, "rate limit">>,
                       <<MsgInitializing, "Server is still initializing">> }

noRetryMessages ==
    {"Invalid eBay URL", "URL is required", "rate limit", "Too Many Requests",
     "NOT_EBAY_URL", "INVALID_URL_FORMAT"}

\* shouldNotRetry comparing the messages case-sensitively.
shouldNotRetry_CaseSensitive(msg) ==
    \E pat \in noRetryMessages : Includes(msg, pat)

shouldNotRetry(msg) == \E pat \in noRetryMessages : IncludesIgnoreCase(msg, pat)

\* An Error object as a caller sees it: message and code (code "none" when
\* the object has no code property).
RawError(msg) == [message |-> msg, code |-> "none"]

transformError(msg) ==
    IF Includes(msg, "timeout")
      THEN [message |-> MsgTimeout, code |-> "TIMEOUT"]
    ELSE IF Includes(msg, "network") \/ Includes(msg, "fetch")
      THEN [message |-> "Network connection failed", code |-> "NETWORK"]
    ELSE IF Includes(msg, "Invalid eBay URL") \/ Includes(msg, "NOT_EBAY_URL")
      THEN [message |-> MsgInvalidUrl, code |-> "INVALID_URL"]
    ELSE IF Includes(msg, "rate limit") \/ Includes(msg, "Too Many Requests")
      THEN [message |-> MsgRateLimit, code |-> "RATE_LIMITED"]
    ELSE IF Includes(msg, "Server is still initializing")
      THEN [message |-> MsgStartingUp, code |-> "SERVER_INITIALIZING"]
    ELSE [message |-> msg, code |-> "UNKNOWN_ERROR"]

\* ------------------------------------------------------------------ state
VARIABLES
    urlOf,             \* row -> its url column (NoUrl: the row has none)
    rows,              \* row -> [status, cls, err]: the row object's _status,
                       \* its three label fields (one value: they are set
                       \* together) and whether _errorMessage is set
    isProcessing, isPaused, isStopped,
    totalRows, processedRows, successfulRows, errorRows,
    processingQueue,   \* sequence of rows
    runs,              \* startAnalysis call -> [phase, batch, live, stopped]
    workers,           \* bag of suspended processNextRow loops
    requests,          \* the makeRequest operations in flight
    activeRequests,    \* ApiClient.activeRequests: url -> request id, 0: none
    events,            \* user clicks and events of the server so far
    lastSettle,        \* what the last task delivered to analyzeURL callers
    \* ScraperService
    browser,           \* this.browser: an instance, 0 for null
    isInitialized,
    inactivityTimer,   \* TRUE: this.inactivityTimer holds a timeout
    pendingTimers,     \* timeouts set and neither run nor cleared so far
    requestCount,
    instances,         \* instance -> "none", "open" (connected) or "gone"
    closing,           \* the instance a closeBrowser call waits for, or 0
    calls,             \* bag of the calls in flight, each suspended at an
                       \* await, with its page and whether this.activePages
                       \* holds that page
    arrived,           \* calls so far
    faults,            \* failures of the environment so far
    lastDown,          \* why this.browser was last set to null
    lastReturn,        \* what the last task returned to a caller
    \* respectRateLimit against the clock
    clock,             \* Date.now(), in ticks of 500 ms
    lastRequestTime,
    pacers,            \* bag of the scrapeEbayURL calls in or past
                       \* respectRateLimit: [pc, wake]
    entered,           \* calls of respectRateLimit so far
    lastEnd,           \* when a scrapeEbayURL call last returned, 0: never
    \* the analysis of one page's markup
    html,              \* the markup handed to the analysis
    analysis           \* what the analysis of html returned, and through
                       \* which function

engineVars == <<urlOf, rows, isProcessing, isPaused, isStopped, totalRows,
                processedRows, successfulRows, errorRows, processingQueue,
                runs, workers, requests, activeRequests, events, lastSettle>>

scraperVars == <<browser, isInitialized, inactivityTimer, pendingTimers,
                 requestCount,
                 instances, closing, calls, arrived, faults, lastDown,
                 lastReturn>>

limiterVars == <<clock, lastRequestTime, pacers, entered, lastEnd>>

vars == <<engineVars, scraperVars, limiterVars, html, analysis>>

NoSettle == [kind |-> "none", calls |-> 0, error |-> "none", seen |-> {}]
NoRun == [phase |-> "none", batch |-> <<>>, live |-> 0, stopped |-> FALSE]
NewRow == [status |-> PENDING, cls |-> "unset", err |-> "unset"]

\* The url columns of the uploaded table: rows 1 and 2 carry the same URL;
\* in the second table row 3 has no URL at all.
UrlFor(r) == Min2((r + 1) \div 2, NumUrls)
UrlTables ==
    { [r \in Rows |-> UrlFor(r)],
      [r \in Rows |-> IF r = 3 THEN NoUrl ELSE UrlFor(r)] }

\* The batches startAnalysis is called with: analyzeAll passes the whole
\* table, analyzeSelected a selection of it in table order.
RECURSIVE SeqOfSet(_)
SeqOfSet(S) ==
    IF S = {} THEN <<>>
    ELSE LET m == CHOOSE x \in S : \A y \in S : x <= y
         IN <<m>> \o SeqOfSet(S \ {m})
AllRows == SeqOfSet(Rows)
Batches == { AllRows, SubSeq(AllRows, 2, 3) }

\* The mutable state as one record, for the operators that model code.
Cur ==
    [rows |-> rows, isProcessing |-> isProcessing, isPaused |-> isPaused,
     isStopped |-> isStopped, totalRows |-> totalRows,
     processedRows |-> processedRows, successfulRows |-> successfulRows,
     errorRows |-> errorRows, processingQueue |-> processingQueue,
     runs |-> runs, workers |-> workers, requests |-> requests,
     activeRequests |-> activeRequests, events |-> events,
     ready |-> <<>>]

\* The engine's next state (the record is evaluated once).
Install(E0, settle) ==
  \E E \in {E0} :
    /\ rows' = E.rows
    /\ isProcessing' = E.isProcessing
    /\ isPaused' = E.isPaused
    /\ isStopped' = E.isStopped
    /\ totalRows' = E.totalRows
    /\ processedRows' = E.processedRows
    /\ successfulRows' = E.successfulRows
    /\ errorRows' = E.errorRows
    /\ processingQueue' = E.processingQueue
    /\ runs' = E.runs
    /\ workers' = E.workers
    /\ requests' = E.requests
    /\ activeRequests' = E.activeRequests
    /\ lastSettle' = settle
    /\ urlOf' = urlOf
    /\ events' = E.events
    /\ UNCHANGED <<scraperVars, limiterVars, html, analysis>>

\* One more click of the user or failure of the server.
MayHappen == events < MaxEvents
Event(E) == [E EXCEPT !.events = @ + 1]

\* A call of the scraper: an HTTP request to /api/analyze-ebay (via
\* "server") or a direct call of scrapeEbayURL (via "direct"), with the url
\* it carries.  pc is the await the call is suspended at and from the
\* caller of initBrowser; page, inst and navs are scrapeEbayURL's locals
\* page, the browser the page was asked of, and attempts; listed tells
\* whether this.activePages holds the page; result is the value the call
\* is about to return.  met records what the call met: "closed" or "lost"
\* for the state of the service at its arrival (see ServiceState), "other"
\* for any other state and once a failure of the environment has struck
\* the call, "hit" once the browser its page belongs to has disconnected
\* before the call had its result.  A call launches a browser at most once, so there are no more
\* instances than calls.
InstanceIds == 1..MaxCalls
NewCall ==
    [via |-> "none", url |-> "none", pc |-> "new", from |-> "none",
     page |-> "none", listed |-> FALSE, inst |-> 0, navs |-> 0,
     result |-> "none", met |-> "none"]
NoReturn == [outcome |-> "none"]

\* The ScraperService after its constructor.
ScraperInit ==
    /\ browser = 0
    /\ isInitialized = FALSE
    /\ inactivityTimer = FALSE
    /\ pendingTimers = 0
    /\ requestCount = 0
    /\ instances = [i \in InstanceIds |-> "none"]
    /\ closing = 0
    /\ calls = EmptyBag
    /\ arrived = 0
    /\ faults = 0
    /\ lastDown = "never"
    /\ lastReturn = NoReturn

\* The clock when the service is constructed: Date.now() is far beyond the
\* minimum delay, and lastRequestTime is 0.
LimiterInit ==
    /\ clock = ebayMinDelay
    /\ lastRequestTime = 0
    /\ pacers = EmptyBag
    /\ entered = 0
    /\ lastEnd = 0

\* No markup has been handed to an analysis.
NoHtml == [kind |-> "none"]
NoAnalysis == [via |-> "none"]

\* The frontend after loading and the services after construction.
ProgramInit ==
    /\ ScraperInit
    /\ LimiterInit
    /\ rows = [r \in Rows |-> NewRow]
    /\ isProcessing = FALSE
    /\ isPaused = FALSE
    /\ isStopped = FALSE
    /\ totalRows = 0
    /\ processedRows = 0
    /\ successfulRows = 0
    /\ errorRows = 0
    /\ processingQueue = <<>>
    /\ runs = [k \in RunIds |-> NoRun]
    /\ workers = EmptyBag
    /\ requests = {}
    /\ activeRequests = [u \in Urls |-> 0]
    /\ events = 0
    /\ lastSettle = NoSettle

Init ==
    /\ ProgramInit
    /\ urlOf \in UrlTables
    /\ html = NoHtml
    /\ analysis = NoAnalysis

\* ------------------------------------------------------------ ApiClient
Worker(k, pc, r, q, first) ==
    [run |-> k, pc |-> pc, row |-> r, req |-> q, first |-> first]

AddWorker(E, w) == [E EXCEPT !.workers = @ (+) SetToBag({w})]

FreeRequestId(E) ==
    CHOOSE i \in 1..(Cardinality(E.requests) + 1) :
        /\ \A q \in E.requests : q.id # i
        /\ \A j \in 1..(i - 1) : \E q \in E.requests : q.id = j

\* analyzeURL(url) up to its first suspension, called by a worker of run k
\* for row r: reuse the registered promise, or start makeRequest (whose
\* first performRequest call is made at once) and register it.
analyzeURL(E, k, r, u) ==
    IF E.activeRequests[u] # 0
      THEN AddWorker(E, Worker(k, "fetch", r, E.activeRequests[u], FALSE))
      ELSE LET id == FreeRequestId(E)
               q == [id |-> id, url |-> u, attempt |-> 0,
                     phase |-> "request", calls |-> 1,
                     lastError |-> "none"]
           IN AddWorker([E EXCEPT !.requests = @ \cup {q},
                                  !.activeRequests[u] = id],
                        Worker(k, "fetch", r, id, TRUE))

\* cancelAllRequests: the registry is emptied, nothing else.
cancelAllRequests(E) ==
    [E EXCEPT !.activeRequests = [u \in Urls |-> 0]]

\* --------------------------------------------------------- AnalysisEngine
\* completeAnalysis, reached by the startAnalysis call k after
\* Promise.all of its workers.
completeAnalysis(E, k) ==
    [E EXCEPT !.isProcessing = FALSE, !.isPaused = FALSE,
              !.runs[k].phase = "completed"]

\* One processNextRow loop of run k returns; the last one resolves the
\* Promise.all that startAnalysis awaits.
WorkerReturn(E, k) ==
    LET E1 == [E EXCEPT !.runs[k].live = @ - 1]
    IN IF E1.runs[k].live = 0 THEN completeAnalysis(E1, k) ELSE E1

\* processRow without the guard against rows that are Processing or
\* Completed.
processRow_NoGuard(E, k, r) ==
    IF urlOf[r] = NoUrl
      THEN [E EXCEPT !.rows[r].status = ERROR,
                     !.rows[r].err = "set",
                     !.errorRows = @ + 1,
                     !.processedRows = @ + 1,
                     !.ready = Append(@, k)]
    ELSE analyzeURL([E EXCEPT !.rows[r].status = PROCESSING], k, r, urlOf[r])

\* processRow(row) up to its first suspension.  A row that returns or
\* throws before any await leaves its worker in E.ready: the worker goes on
\* in a microtask of the same task.
processRow(E, k, r) ==
    IF E.rows[r].status \in {PROCESSING, COMPLETED}
      THEN [E EXCEPT !.ready = Append(@, k)]
    ELSE IF urlOf[r] = NoUrl
      THEN [E EXCEPT !.rows[r].status = ERROR,
                     !.rows[r].err = "set",
                     !.errorRows = @ + 1,
                     !.processedRows = @ + 1,
                     !.ready = Append(@, k)]
    ELSE analyzeURL([E EXCEPT !.rows[r].status = PROCESSING], k, r, urlOf[r])

\* processNextRow taking the last row of the queue (pop) instead of the
\* first (shift).
PausePoll_Pop(E, k) ==
    IF E.isPaused /\ ~E.isStopped
      THEN AddWorker(E, Worker(k, "poll", 0, 0, FALSE))
    ELSE IF E.isStopped THEN WorkerReturn(E, k)
    ELSE IF E.processingQueue = <<>> THEN WorkerReturn(E, k)
    ELSE processRow([E EXCEPT !.processingQueue =
                                  SubSeq(@, 1, Len(@) - 1)], k,
                    E.processingQueue[Len(E.processingQueue)])

\* processNextRow from the pause poll on: poll while paused, leave when
\* stopped, otherwise shift the next row and process it.
PausePoll(E, k) ==
    IF E.isPaused /\ ~E.isStopped
      THEN AddWorker(E, Worker(k, "poll", 0, 0, FALSE))
    ELSE IF E.isStopped THEN WorkerReturn(E, k)
    ELSE IF E.processingQueue = <<>> THEN WorkerReturn(E, k)
    ELSE processRow([E EXCEPT !.processingQueue = Tail(@)], k,
                    Head(E.processingQueue))

\* processNextRow at the head of its while loop.
LoopHead(E, k) ==
    IF Len(E.processingQueue) > 0 /\ ~E.isStopped
      THEN PausePoll(E, k)
      ELSE WorkerReturn(E, k)

\* processNextRow after "await this.processRow(row)": pace before the next
\* row, or fall out of the loop when the queue is empty.
AfterRow(E, k) ==
    IF Len(E.processingQueue) > 0
      THEN AddWorker(E, Worker(k, "delay", 0, 0, FALSE))
      ELSE WorkerReturn(E, k)

\* The microtasks of the workers whose processRow has returned.
RECURSIVE Drain(_)
Drain(E0) ==
    Once(LAMBDA E :
           IF E.ready = <<>> THEN E
           ELSE Drain(AfterRow([E EXCEPT !.ready = Tail(@)], Head(E.ready))),
         E0)

\* processWithConcurrency: n loops are started one after the other.
RECURSIVE LaunchWorkers(_, _, _)
LaunchWorkers(E0, k, n) ==
    Once(LAMBDA E : IF n = 0 THEN E
                    ELSE LaunchWorkers(LoopHead(E, k), k, n - 1),
         E0)

\* processWithConcurrency awaiting maxConcurrentRequests loops whatever the
\* number it started.
processWithConcurrency_AwaitsAll(E, k) ==
    LET n == Min2(maxConcurrentRequests, Len(E.processingQueue))
        E1 == [E EXCEPT !.runs[k].live = maxConcurrentRequests]
    IN IF n = 0 THEN completeAnalysis(E1, k)
       ELSE Drain(LaunchWorkers(E1, k, n))

processWithConcurrency(E, k) ==
    LET n == Min2(maxConcurrentRequests, Len(E.processingQueue))
        E1 == [E EXCEPT !.runs[k].live = n]
    IN IF n = 0 THEN completeAnalysis(E1, k)
       ELSE Drain(LaunchWorkers(E1, k, n))

\* startAnalysis after the health check answered "available".
startAnalysisInit(E, k) ==
    processWithConcurrency(
        [E EXCEPT !.isProcessing = TRUE, !.isPaused = FALSE,
                  !.isStopped = FALSE, !.processedRows = 0,
                  !.successfulRows = 0, !.errorRows = 0,
                  !.totalRows = Len(E.runs[k].batch),
                  !.processingQueue = E.runs[k].batch,
                  !.runs[k].phase = "running"], k)

stopAnalysis(E) ==
    LET E1 == cancelAllRequests(
                [E EXCEPT !.isStopped = TRUE, !.isProcessing = FALSE,
                          !.isPaused = FALSE])
    IN [E1 EXCEPT
          !.processingQueue = <<>>,
          !.rows = [r \in Rows |->
                      IF E.rows[r].status = PROCESSING
                        THEN [E.rows[r] EXCEPT !.status = PENDING]
                        ELSE E.rows[r]],
          !.runs = [k \in RunIds |->
                      IF E.runs[k].phase = "running"
                        THEN [E.runs[k] EXCEPT !.stopped = TRUE]
                        ELSE E.runs[k]]]

\* ---------------------------------------------------------------- actions
\* The user clicks "Analyze all" or "Analyze selected": startAnalysis up to
\* "await isServerAvailable()".
StartCall(k, b) ==
    /\ MayHappen
    /\ runs[k].phase = "none"
    /\ \A j \in 1..(k - 1) : runs[j].phase # "none"
    /\ runs' = [runs EXCEPT ![k] =
                  [NoRun EXCEPT !.batch = b,
                                !.phase = IF isProcessing THEN "rejected"
                                          ELSE "health"]]
    /\ events' = events + 1
    /\ lastSettle' = NoSettle
    /\ UNCHANGED <<urlOf, rows, isProcessing, isPaused, isStopped, totalRows,
                   processedRows, successfulRows, errorRows, processingQueue,
                   workers, requests, activeRequests>>
    /\ UNCHANGED <<scraperVars, limiterVars, html, analysis>>

\* The health check of call k answers.
HealthSettle(k, available) ==
    /\ runs[k].phase = "health"
    /\ IF available
         THEN Install(startAnalysisInit(Cur, k), NoSettle)
         ELSE /\ MayHappen
              /\ Install(Event([Cur EXCEPT !.runs[k].phase = "unavailable"]),
                         NoSettle)

\* pauseAnalysis (a click while the run is already paused changes nothing).
PauseAnalysis ==
    /\ MayHappen
    /\ isProcessing
    /\ ~isPaused
    /\ Install(Event([Cur EXCEPT !.isPaused = TRUE]), NoSettle)

ResumeAnalysis ==
    /\ MayHappen
    /\ isProcessing /\ isPaused
    /\ Install(Event([Cur EXCEPT !.isPaused = FALSE]), NoSettle)

StopAnalysis ==
    /\ MayHappen
    /\ isProcessing
    /\ Install(Event(stopAnalysis(Cur)), NoSettle)

\* The 500 ms pacing delay of a worker elapses.
DelayDone(w) ==
    /\ w.pc = "delay"
    /\ Install(Drain(LoopHead([Cur EXCEPT !.workers = @ (-) SetToBag({w})],
                              w.run)), NoSettle)

\* A 100 ms pause poll elapses and the worker finds the pause or the run
\* over (while the pause lasts the poll changes nothing).
PollWake(w) ==
    /\ w.pc = "poll"
    /\ ~(isPaused /\ ~isStopped)
    /\ Install(Drain(PausePoll([Cur EXCEPT !.workers = @ (-) SetToBag({w})],
                               w.run)), NoSettle)

\* --------------------------------------------- settlement of a request
\* What the analyzeURL call of worker w throws when makeRequest rejects
\* with an error of message msg: the caller that started the request awaits
\* inside the try block and rethrows transformError(error); a caller that
\* was handed the registered promise returns it from the try block without
\* awaiting it, so the catch block never sees the rejection.
Thrown(w, msg) == IF w.first THEN transformError(msg) ELSE RawError(msg)

\* processRow whose catch block writes the label fields instead of the
\* error message.
processRowSettled_LabelsError(E, w, ok, msg) ==
    IF ok
      THEN [E EXCEPT !.rows[w.row].cls = "YN",
                     !.rows[w.row].status = COMPLETED,
                     !.successfulRows = @ + 1,
                     !.processedRows = @ + 1,
                     !.ready = Append(@, w.run)]
      ELSE [E EXCEPT !.rows[w.row].status = ERROR,
                     !.rows[w.row].cls = "Error",
                     !.errorRows = @ + 1,
                     !.processedRows = @ + 1,
                     !.ready = Append(@, w.run)]


\* processRow whose catch block lets the error go on: it leaves the worker
\* loop, Promise.all rejects and startAnalysis stops the run.
processRowSettled_Propagates(E, w, ok, msg) ==
    IF ok
      THEN [E EXCEPT !.rows[w.row].cls = "YN",
                     !.rows[w.row].status = COMPLETED,
                     !.successfulRows = @ + 1,
                     !.processedRows = @ + 1,
                     !.ready = Append(@, w.run)]
      ELSE stopAnalysis([E EXCEPT !.rows[w.row].status = ERROR,
                                  !.rows[w.row].err = "set",
                                  !.errorRows = @ + 1,
                                  !.processedRows = @ + 1])

\* processRow of worker w after "await analyzeURL(url)", with its finally.
processRowSettled(E, w, ok, msg) ==
    IF ok
      THEN [E EXCEPT !.rows[w.row].cls = "YN",
                     !.rows[w.row].status = COMPLETED,
                     !.successfulRows = @ + 1,
                     !.processedRows = @ + 1,
                     !.ready = Append(@, w.run)]
      ELSE [E EXCEPT !.rows[w.row].status = ERROR,
                     !.rows[w.row].err = "set",
                     !.errorRows = @ + 1,
                     !.processedRows = @ + 1,
                     !.ready = Append(@, w.run)]

Awaiting(E, id) ==
    { w \in BagToSet(E.workers) : w.pc = "fetch" /\ w.req = id }

\* The callers of analyzeURL are resumed in the order in which they began
\* to await the promise: the caller that started the request first.
RECURSIVE ResumeCallers(_, _, _, _)
ResumeCallers(E, id, ok, msg) ==
    LET A == Awaiting(E, id)
    IN IF A = {} THEN E
       ELSE LET w == IF \E x \in A : x.first
                       THEN CHOOSE x \in A : x.first
                       ELSE CHOOSE x \in A : TRUE
                E1 == [E EXCEPT !.workers = @ (-) SetToBag({w})]
            IN ResumeCallers(processRowSettled(E1, w, ok, msg), id, ok, msg)

\* makeRequest of q settles: the finally handler of analyzeURL deletes the
\* registry entry of q's url, then the callers go on.
SettleRequest(E, q, ok, msg) ==
    Drain(ResumeCallers([E EXCEPT !.requests = @ \ {q},
                                  !.activeRequests[q.url] = 0],
                        q.id, ok, msg))

Seen(E, q, ok, msg) ==
    { [first |-> w.first, row |-> w.row, ok |-> ok,
       value |-> IF ok THEN "YN" ELSE "none",
       error |-> IF ok THEN RawError("none") ELSE Thrown(w, msg)] :
      w \in Awaiting(E, q.id) }

\* makeRequest with the loop test "attempt < retries".
makeRequestCatch_OneShort(q, msg) ==
    IF shouldNotRetry(msg) THEN "throw"
    ELSE IF q.attempt + 1 < maxRetries THEN "retry"
    ELSE "throw"

\* makeRequest's catch block, then the loop's increment and test.
makeRequestCatch(q, msg) ==
    IF shouldNotRetry(msg) THEN "throw"
    ELSE IF q.attempt + 1 <= maxRetries THEN "retry"
    ELSE "throw"

\* performRequest of q returns the server's 200 response.
AttemptSucceed(q) ==
    /\ q.phase = "request"
    /\ Install(SettleRequest(Cur, q, TRUE, "none"),
               [kind |-> "resolved", calls |-> q.calls, error |-> "none",
                seen |-> Seen(Cur, q, TRUE, "none")])

\* performRequest of q throws an error of message msg.
AttemptFail(q, msg) ==
    /\ MayHappen
    /\ q.phase = "request"
    /\ LET E == Event(Cur)
       IN
       IF makeRequestCatch(q, msg) = "retry"
         THEN Install([E EXCEPT !.requests =
                          (@ \ {q}) \cup
                          {[q EXCEPT !.attempt = @ + 1, !.phase = "backoff",
                                     !.lastError = msg]}],
                      NoSettle)
         ELSE Install(SettleRequest(E, q, FALSE, msg),
                      [kind |-> "rejected", calls |-> q.calls, error |-> msg,
                       seen |-> Seen(Cur, q, FALSE, msg)])

\* The backoff delay (retryDelay * attempt) of q elapses: next attempt.
BackoffDone(q) ==
    /\ q.phase = "backoff"
    /\ Install([Cur EXCEPT !.requests =
                   (@ \ {q}) \cup
                   {[q EXCEPT !.phase = "request", !.calls = @ + 1]}],
               NoSettle)

Next ==
    \/ \E k \in RunIds, b \in Batches : StartCall(k, b)
    \/ \E k \in RunIds, available \in BOOLEAN : HealthSettle(k, available)
    \/ PauseAnalysis
    \/ ResumeAnalysis
    \/ StopAnalysis
    \/ \E w \in BagToSet(workers) : DelayDone(w)
    \/ \E w \in BagToSet(workers) : PollWake(w)
    \/ \E q \in requests : AttemptSucceed(q)
    \/ \E q \in requests, msg \in RequestErrors : AttemptFail(q, msg)
    \/ \E q \in requests : BackoffDone(q)

Spec == Init /\ [][Next]_vars

\* The behaviours in which the user starts the analysis once: startAnalysis
\* is called for the first run only, every other step is as in Next.
FirstRun == CHOOSE k \in RunIds : \A j \in RunIds : k <= j

NextSingleRun ==
    \/ \E b \in Batches : StartCall(FirstRun, b)
    \/ \E k \in RunIds, available \in BOOLEAN : HealthSettle(k, available)
    \/ PauseAnalysis
    \/ ResumeAnalysis
    \/ StopAnalysis
    \/ \E w \in BagToSet(workers) : DelayDone(w)
    \/ \E w \in BagToSet(workers) : PollWake(w)
    \/ \E q \in requests : AttemptSucceed(q)
    \/ \E q \in requests, msg \in RequestErrors : AttemptFail(q, msg)
    \/ \E q \in requests : BackoffDone(q)

SpecSingleRun == Init /\ [][NextSingleRun]_vars

\* One run under the scheduling of the browser: every timer fires (the
\* pacing delay, the pause poll, the backoff delay) and every HTTP request
\* settles (performRequest aborts its fetch after the timeout, and so does
\* the health check).
FairSingleRun ==
    /\ WF_vars(\E k \in RunIds, available \in BOOLEAN :
                  HealthSettle(k, available))
    /\ WF_vars(\E w \in BagToSet(workers) : DelayDone(w))
    /\ WF_vars(\E w \in BagToSet(workers) : PollWake(w))
    /\ WF_vars(\E q \in requests :
                  \/ AttemptSucceed(q)
                  \/ \E msg \in RequestErrors : AttemptFail(q, msg))
    /\ WF_vars(\E q \in requests : BackoffDone(q))

SpecSingleRunFair == SpecSingleRun /\ FairSingleRun

\* The behaviours in which startAnalysis is called once with an array that
\* holds rows twice: the whole table followed by a selection of it, or a
\* selection twice over.
DupBatches ==
    { AllRows \o SubSeq(AllRows, 2, 3),
      SubSeq(AllRows, 2, 3) \o SubSeq(AllRows, 2, 3) }

NextDuplicates ==
    \/ \E b \in DupBatches : StartCall(FirstRun, b)
    \/ \E k \in RunIds, available \in BOOLEAN : HealthSettle(k, available)
    \/ PauseAnalysis
    \/ ResumeAnalysis
    \/ StopAnalysis
    \/ \E w \in BagToSet(workers) : DelayDone(w)
    \/ \E w \in BagToSet(workers) : PollWake(w)
    \/ \E q \in requests : AttemptSucceed(q)
    \/ \E q \in requests, msg \in RequestErrors : AttemptFail(q, msg)
    \/ \E q \in requests : BackoffDone(q)

SpecDuplicates == Init /\ [][NextDuplicates]_vars

\* ========================================================= ScraperService
\* The service's state as one record, for the operators that model code.
SCur ==
    [browser |-> browser, isInitialized |-> isInitialized,
     inactivityTimer |-> inactivityTimer, pendingTimers |-> pendingTimers,
     requestCount |-> requestCount,
     instances |-> instances, closing |-> closing, calls |-> calls,
     arrived |-> arrived, faults |-> faults, lastDown |-> lastDown,
     lastReturn |-> NoReturn]

InstallScraper(S) ==
    /\ browser' = S.browser
    /\ isInitialized' = S.isInitialized
    /\ inactivityTimer' = S.inactivityTimer
    /\ pendingTimers' = S.pendingTimers
    /\ requestCount' = S.requestCount
    /\ instances' = S.instances
    /\ closing' = S.closing
    /\ calls' = S.calls
    /\ arrived' = S.arrived
    /\ faults' = S.faults
    /\ lastDown' = S.lastDown
    /\ lastReturn' = S.lastReturn
    /\ UNCHANGED <<engineVars, limiterVars, html, analysis>>

\* this.activePages: the listed pages of the calls in B.
activePages(B) == { w \in BagToSet(B) : w.listed }
activePagesSize(B) ==
    Cardinality({ <<w, n>> \in activePages(B) \X (1..MaxCalls) : n <= B[w] })

\* browser.isConnected()
isConnected(S, b) == S.instances[b] = "open"

\* The bag B with f applied to each of its calls.
MapCalls(B, f(_)) ==
    LET D == { f(w) : w \in BagToSet(B) }
    IN [v \in D |->
          Cardinality({ <<w, n>> \in BagToSet(B) \X (1..MaxCalls) :
                           f(w) = v /\ n <= B[w] })]

\* The call w (taken out of S.calls by the action) is suspended again.
Suspend(S, w) == [S EXCEPT !.calls = @ (+) SetToBag({w})]
Without(w) == [SCur EXCEPT !.calls = @ (-) SetToBag({w})]

\* One more failure of the environment, and the calls it strikes.
MayFail == faults < MaxFaults
Struck(w) == IF w.met = "hit" THEN w ELSE [w EXCEPT !.met = "other"]
Fault(S) == [S EXCEPT !.faults = @ + 1]

\* The 'disconnected' handler installed by initBrowser: it clears the
\* service's reference whichever instance emitted the event.
onDisconnected(S, why) ==
    [S EXCEPT !.browser = 0, !.isInitialized = FALSE, !.lastDown = why]

\* The call is over.
Return(S, w, result, outcome) ==
    [S EXCEPT !.lastReturn = [via |-> w.via, url |-> w.url, page |-> w.page,
                              listed |-> w.listed, met |-> w.met,
                              navs |-> w.navs, result |-> result,
                              outcome |-> outcome]]

\* The route answers with an HTTP status without calling the scraper, or
\* scrapeEbayURL throws.
Respond(S, w, status) == Return(S, w, "none", status)

\* The value scrapeEbayURL returns: from its try block three labels that
\* are each Y or N and no error field, from createErrorResult three labels
\* Error and an error message.
resultValue(result) ==
    IF result = "error"
      THEN [productFiche |-> "Error", energyLabel |-> "Error",
            mouseoverLabel |-> "Error", error |-> "set"]
      ELSE [productFiche |-> "YN", energyLabel |-> "YN",
            mouseoverLabel |-> "YN", error |-> "unset"]

\* The route without its test of result.error.
Settle_NoErrorTest(S, w, result) ==
    Return(S, w, result, IF w.via = "server" THEN "200" ELSE "returned")

\* scrapeEbayURL with a catch block that rethrows.
Settle_Rethrows(S, w, result) ==
    Return(S, w, result,
           IF result = "error"
             THEN IF w.via = "server" THEN "500" ELSE "threw"
           ELSE IF w.via = "server" THEN "200"
           ELSE "returned")

\* scrapeEbayURL returns result: the route answers 422 for an error result
\* and 200 otherwise; a direct caller gets the value.
Settle(S, w, result) ==
    Return(S, w, result,
           IF w.via = "server"
             THEN IF resultValue(result).error = "set" THEN "422" ELSE "200"
             ELSE "returned")

\* startInactivityTimer without its clearTimeout.
startInactivityTimer_NoClear(S) ==
    [S EXCEPT !.pendingTimers = @ + 1, !.inactivityTimer = TRUE]

\* startInactivityTimer: the timeout held is cleared and a new one is set
\* and held.
startInactivityTimer(S) ==
    [S EXCEPT !.pendingTimers = (IF S.inactivityTimer THEN @ - 1 ELSE @) + 1,
              !.inactivityTimer = TRUE]

resetActivityTimer(S) ==
    IF S.browser # 0 /\ S.isInitialized THEN startInactivityTimer(S) ELSE S

\* scrapeEbayURL's finally block without the delete.
scrapeFinally_KeepsPage(S, w, result) ==
    IF w.page = "none"
      THEN Settle(S, w, result)
      ELSE Suspend(S, [w EXCEPT !.pc = "pageClose", !.result = result])

\* The return of scrapeEbayURL with result ("ok" from the try block,
\* "error" from createErrorResult in the catch block) through the finally
\* block: a page that was created is deleted from activePages and
\* page.close() is awaited; without a page the call returns at once.
scrapeFinally(S, w, result) ==
    IF w.page = "none"
      THEN Settle(S, w, result)
      ELSE Suspend(S, [w EXCEPT !.listed = FALSE, !.pc = "pageClose",
                                !.result = result])

\* scrapeEbayURL from resetActivityTimer up to the delay of
\* respectRateLimit.
scrapeReady(S, w) ==
    Suspend(resetActivityTimer(S), [w EXCEPT !.pc = "rateLimit"])

\* initBrowser called by the middleware (from "mw") or by scrapeEbayURL
\* (from "scrape"): without a browser it awaits puppeteer.launch, with one
\* it returns it.  (Its first test, a browser that is set but not
\* connected, never holds: the 'disconnected' handler clears this.browser
\* in the task in which isConnected() turns false.)
RECURSIVE afterInit(_, _, _)
initBrowser(S, w, from) ==
    IF S.browser = 0
      THEN Suspend(S, [w EXCEPT !.pc = "launch", !.from = from])
      ELSE afterInit(S, w, from)

\* scrapeEbayURL without the test of this.browser.
scrapeEbayURL_NoInit(S, w) ==
    IF w.url # "valid"
      THEN Respond(S, w, IF w.via = "server" THEN "500" ELSE "threw")
      ELSE scrapeReady(S, w)

\* scrapeEbayURL up to its first suspension.
scrapeEbayURL(S, w) ==
    IF w.url # "valid"
      THEN Respond(S, w, IF w.via = "server" THEN "500" ELSE "threw")
    ELSE IF S.browser = 0 \/ ~isConnected(S, S.browser)
      THEN initBrowser(S, w, "scrape")
    ELSE scrapeReady(S, w)

\* POST /api/analyze-ebay: input validation, then the scrape.
routeHandler(S, w) ==
    IF w.url = "invalid"
      THEN Respond(S, w, "400")
      ELSE scrapeEbayURL(S, w)

\* The caller of initBrowser goes on: the middleware calls next(),
\* scrapeEbayURL goes on in its try block.
afterInit(S, w, from) ==
    IF from = "mw" THEN routeHandler(S, w) ELSE scrapeReady(S, w)

\* The readiness middleware of /api/analyze-ebay (isServerReady holds
\* whenever a request arrives: the server listens only after
\* initializeServices has returned).
middleware(S, w) ==
    IF S.browser = 0 \/ ~isConnected(S, S.browser)
      THEN initBrowser(S, w, "mw")
      ELSE routeHandler(S, w)

\* What a call finds at its arrival: the browser closed by closeBrowser,
\* lost by a disconnect, or anything else.
ServiceState ==
    IF closing = 0 /\ browser = 0 /\ lastDown # "never" THEN lastDown
    ELSE "other"

\* ------------------------------------------------- actions of the scraper
\* A call arrives: an HTTP request whose url is valid or not (missing,
\* malformed or not an eBay URL), or a direct call of scrapeEbayURL.
Arrive(via, url) ==
    /\ arrived < MaxCalls
    /\ LET w == [NewCall EXCEPT !.via = via, !.url = url,
                                !.met = ServiceState]
           S == [SCur EXCEPT !.arrived = @ + 1]
       IN InstallScraper(IF via = "server" THEN middleware(S, w)
                         ELSE scrapeEbayURL(S, w))

\* puppeteer.launch of call w resolves with a new instance.
LaunchDone(w) ==
    /\ w.pc = "launch"
    /\ \E i \in InstanceIds :
        /\ instances[i] = "none"
        /\ \A j \in 1..(i - 1) : instances[j] # "none"
        /\ InstallScraper(
             afterInit(startInactivityTimer(
                          [Without(w) EXCEPT !.instances[i] = "open",
                                             !.browser = i,
                                             !.isInitialized = TRUE]),
                       w, w.from))

\* puppeteer.launch of call w rejects: initBrowser throws BROWSER_ERROR; the
\* middleware answers 503, scrapeEbayURL catches it.
LaunchFail(w) ==
    /\ MayFail
    /\ w.pc = "launch"
    /\ InstallScraper(IF w.from = "mw"
                        THEN Respond(Fault(Without(w)), Struck(w), "503")
                        ELSE scrapeFinally(Fault(Without(w)), Struck(w),
                                           "error"))

\* The delays of respectRateLimit are over: the request is counted and
\* this.browser.newPage() is called (a TypeError when this.browser is null).
RateLimitDone(w) ==
    /\ w.pc = "rateLimit"
    /\ LET S == [Without(w) EXCEPT !.requestCount = @ + 1]
       IN InstallScraper(
            IF S.browser = 0
              THEN scrapeFinally(S, w, "error")
              ELSE Suspend(S, [w EXCEPT !.pc = "newPage",
                                        !.inst = S.browser]))

\* newPage resolves; the page is added to activePages and set up, and the
\* first page.goto is issued.
PageCreated(w) ==
    /\ w.pc = "newPage"
    /\ instances[w.inst] = "open"
    /\ InstallScraper(Suspend(Without(w),
                              [w EXCEPT !.page = "open", !.listed = TRUE,
                                        !.navs = 1, !.pc = "nav"]))

\* newPage rejects: its browser is gone.
PageRefused(w) ==
    /\ w.pc = "newPage"
    /\ instances[w.inst] = "gone"
    /\ InstallScraper(scrapeFinally(Without(w), w, "error"))

\* page.goto answers with a status below 400.
NavOk(w) ==
    /\ w.pc = "nav"
    /\ instances[w.inst] = "open"
    /\ InstallScraper(Suspend(Without(w), [w EXCEPT !.pc = "content"]))

\* The navigation loop with the test "attempts <= maxAttempts".
navigationCatch_OneMore(w) ==
    IF w.navs <= maxAttempts THEN "retry" ELSE "throw"

\* The catch block of the navigation loop.
navigationCatch(w) ==
    IF w.navs < maxAttempts THEN "retry" ELSE "throw"

\* page.goto fails (always when the browser is gone): the loop waits and
\* tries again while attempts < maxAttempts, then rethrows.
NavFail(w) ==
    /\ w.pc = "nav"
    /\ instances[w.inst] = "gone" \/ MayFail
    /\ LET gone == instances[w.inst] = "gone"
           S == IF gone THEN Without(w) ELSE Fault(Without(w))
           v == IF gone THEN w ELSE Struck(w)
       IN InstallScraper(
            IF navigationCatch(w) = "retry"
              THEN Suspend(S, [v EXCEPT !.pc = "navDelay"])
              ELSE scrapeFinally(S, v, "error"))

\* The delay 3000 * attempts is over: the next page.goto.
NavRetry(w) ==
    /\ w.pc = "navDelay"
    /\ InstallScraper(Suspend(Without(w),
                              [w EXCEPT !.navs = @ + 1, !.pc = "nav"]))

\* The 3000 ms wait and page.content() are over: the analysis result is
\* returned, or the error of page.content() is caught.
ContentDone(w) ==
    /\ w.pc = "content"
    /\ InstallScraper(
         scrapeFinally(Without(w), w,
                       IF instances[w.inst] = "open" THEN "ok" ELSE "error"))

\* page.close() of the finally block settles (its error is swallowed).
PageCloseDone(w) ==
    /\ w.pc = "pageClose"
    /\ InstallScraper(Settle(Without(w), [w EXCEPT !.page = "closed"],
                             w.result))

\* closeBrowser's loop over activePages and its clear().
closePages(w) ==
    IF w.listed THEN [w EXCEPT !.listed = FALSE, !.page = "closed"] ELSE w

\* The timeouts that can run and call closeBrowser: the one that
\* this.inactivityTimer holds, or another one that is still set; cleanup()
\* calls closeBrowser without any timeout running.
Fireable(cause) ==
    IF cause = "cleanup" THEN {"none"}
    ELSE (IF inactivityTimer THEN {"held"} ELSE {})
           \cup (IF pendingTimers > (IF inactivityTimer THEN 1 ELSE 0)
                   THEN {"other"} ELSE {})

\* The first statement of closeBrowser after the timeout fired has run
\* ("none": no timeout has run): clearTimeout of the timeout held, which
\* does nothing to a timeout that has run, and this.inactivityTimer = null.
clearInactivityTimer(S, fired) ==
    [S EXCEPT !.pendingTimers =
                 @ - (IF fired = "none" THEN 0 ELSE 1)
                   - (IF S.inactivityTimer /\ fired # "held" THEN 1 ELSE 0),
              !.inactivityTimer = FALSE]

\* closeBrowser starts, called by the inactivity timeout or by cleanup():
\* the timer is cleared, the pages in activePages are closed and the set is
\* cleared, and browser.close() is awaited.  The timeout is 5 minutes and
\* cleanup() is called when the work is done, so no call is in flight.
CloseStart(cause) ==
    /\ closing = 0
    /\ calls = EmptyBag
    /\ \E fired \in Fireable(cause) :
          InstallScraper(
            IF browser = 0
              THEN clearInactivityTimer(SCur, fired)
              ELSE [clearInactivityTimer(SCur, fired)
                      EXCEPT !.calls = MapCalls(@, closePages),
                             !.closing = browser])

\* The browser being closed exits: it emits 'disconnected'.
BrowserExit ==
    /\ closing # 0
    /\ instances[closing] = "open"
    /\ InstallScraper(onDisconnected([SCur EXCEPT !.instances[closing] = "gone"],
                                     "closed"))

\* browser.close() resolves and closeBrowser goes on.
CloseResume ==
    /\ closing # 0
    /\ instances[closing] = "gone"
    /\ InstallScraper([SCur EXCEPT !.browser = 0,
                                   !.isInitialized = FALSE,
                                   !.closing = 0,
                                   !.lastDown = "closed"])

\* Instance b crashes or loses its connection: the calls that hold it and
\* have no result yet are hit.
Disconnect(b) ==
    /\ MayFail
    /\ instances[b] = "open"
    /\ b # closing
    /\ LET Hit(w) == IF w.inst = b /\ w.pc # "pageClose"
                       THEN [w EXCEPT !.met = "hit"]
                       ELSE Struck(w)
       IN InstallScraper(
            onDisconnected(Fault([SCur EXCEPT !.instances[b] = "gone",
                                              !.calls = MapCalls(@, Hit)]),
                           "lost"))

NextScraper ==
    \/ \E via \in {"server", "direct"}, url \in {"valid", "invalid"} :
          Arrive(via, url)
    \/ \E w \in BagToSet(calls) : LaunchDone(w)
    \/ \E w \in BagToSet(calls) : LaunchFail(w)
    \/ \E w \in BagToSet(calls) : RateLimitDone(w)
    \/ \E w \in BagToSet(calls) : PageCreated(w)
    \/ \E w \in BagToSet(calls) : PageRefused(w)
    \/ \E w \in BagToSet(calls) : NavOk(w)
    \/ \E w \in BagToSet(calls) : NavFail(w)
    \/ \E w \in BagToSet(calls) : NavRetry(w)
    \/ \E w \in BagToSet(calls) : ContentDone(w)
    \/ \E w \in BagToSet(calls) : PageCloseDone(w)
    \/ \E cause \in {"timer", "cleanup"} : CloseStart(cause)
    \/ BrowserExit
    \/ CloseResume
    \/ \E b \in InstanceIds : Disconnect(b)

\* The backend on its own: the frontend stays as it is after loading.
InitScraper == Init /\ urlOf = [r \in Rows |-> UrlFor(r)]
SpecScraper == InitScraper /\ [][NextScraper]_vars

\* ============================================================= DomAnalyzer
\* Text is a sequence of characters; an element is a record of its tag, its
\* classes, the attributes it has, its own text and its children in
\* document order.
Whitespace == {" "}

\* The words the checks look for.
Words ==
    [javascript |-> <<"j", "a", "v", "a", "s", "c", "r", "i", "p", "t", ":">>,
     produktdatenblatt |-> <<"p", "r", "o", "d", "u", "k", "t", "d", "a", "t",
                             "e", "n", "b", "l", "a", "t", "t">>,
     ebayimg |-> <<"e", "b", "a", "y", "i", "m", "g">>,
     eek |-> <<"e", "e", "k">>,
     energy |-> <<"e", "n", "e", "r", "g", "y">>,
     rating |-> <<"r", "a", "t", "i", "n", "g">>]

\* String.prototype.toLowerCase
toLowerCase(s) ==
    LET upper == <<"A", "B", "C", "D", "E", "F", "G", "H", "I", "J", "K", "L",
                   "M", "N", "O", "P", "Q", "R", "S", "T", "U", "V", "W", "X",
                   "Y", "Z">>
        lower == <<"a", "b", "c", "d", "e", "f", "g", "h", "i", "j", "k", "l",
                   "m", "n", "o", "p", "q", "r", "s", "t", "u", "v", "w", "x",
                   "y", "z">>
    IN [i \in 1..Len(s) |->
          IF \E k \in 1..Len(upper) : upper[k] = s[i]
            THEN lower[CHOOSE k \in 1..Len(upper) : upper[k] = s[i]]
            ELSE s[i]]

\* String.prototype.includes
includes(s, sub) ==
    \E i \in 0..(Len(s) - Len(sub)) : SubSeq(s, i + 1, i + Len(sub)) = sub

\* String.prototype.trim
trim(s) ==
    LET solid == { i \in 1..Len(s) : s[i] \notin Whitespace }
    IN IF solid = {} THEN <<>>
       ELSE SubSeq(s, CHOOSE i \in solid : \A j \in solid : i <= j,
                      CHOOSE i \in solid : \A j \in solid : j <= i)

\* word, then \s*, then rest, somewhere in s (s and both words lower case).
SpacedPair(s, word, rest) ==
    \E i \in 1..Len(s), j \in 1..Len(s) :
        /\ i + Len(word) - 1 <= Len(s)
        /\ SubSeq(s, i, i + Len(word) - 1) = word
        /\ j >= i + Len(word)
        /\ j + Len(rest) - 1 <= Len(s)
        /\ \A m \in (i + Len(word))..(j - 1) : s[m] \in Whitespace
        /\ SubSeq(s, j, j + Len(rest) - 1) = rest

\* /EEK\s*[A-G][+]*/i.test(s); [+]* also matches no character.
EekPattern(s) ==
    \E c \in {"a", "b", "c", "d", "e", "f", "g"} :
        SpacedPair(toLowerCase(s), Words.eek, <<c>>)

\* /[A-G]/i.test(s)
ClassLetter(s) ==
    \E i \in 1..Len(s) :
        toLowerCase(s)[i] \in {"a", "b", "c", "d", "e", "f", "g"}

Elem(tag, cls, text, kids) ==
    [tag |-> tag, cls |-> cls, has |-> {}, href |-> <<>>, src |-> <<>>,
     alt |-> <<>>, text |-> text, kids |-> kids]

\* null, as querySelector returns it.
Null == Elem("null", {}, <<>>, <<>>)

\* The descendants of the elements of kids in document order.
RECURSIVE Preorder(_)
Preorder(kids) ==
    IF kids = <<>>
      THEN <<>>
      ELSE <<Head(kids)>> \o Preorder(Head(kids).kids) \o Preorder(Tail(kids))

\* A compound selector: a tag ("*" for any), classes and attributes that
\* the element must all have.
Selector(tag, cls, has) == [tag |-> tag, cls |-> cls, has |-> has]
ByClass(cls) == Selector("*", cls, {})

matches(e, sel) ==
    /\ sel.tag \in {"*", e.tag}
    /\ sel.cls \subseteq e.cls
    /\ sel.has \subseteq e.has

\* Element.querySelectorAll and Element.querySelector: the descendants of
\* e that match, the first of them in document order.
querySelectorAll(e, sel) ==
    SelectSeq(Preorder(e.kids), LAMBDA x : matches(x, sel))

querySelector(e, sel) ==
    IF querySelectorAll(e, sel) = <<>>
      THEN Null
      ELSE Head(querySelectorAll(e, sel))

\* Node.textContent: the text of e and of its descendants.
RECURSIVE Concat(_)
Concat(texts) ==
    IF texts = <<>> THEN <<>> ELSE Head(texts) \o Concat(Tail(texts))

textContent(e) ==
    e.text \o Concat([i \in 1..Len(Preorder(e.kids)) |->
                         Preorder(e.kids)[i].text])

\* getAttribute(name) || '': the empty text for an attribute that is not
\* there.
getAttribute(e, name) ==
    IF name \notin e.has THEN <<>>
    ELSE IF name = "href" THEN e.href
    ELSE IF name = "src" THEN e.src
    ELSE e.alt

\* DomAnalyzer.checkProduktdatenblatt; no step of its try block throws on
\* a parsed document, so that its catch block is never entered.
checkProduktdatenblatt(dom) ==
    LET regulatoryWrapper == querySelector(dom, ByClass({"x-regulatory-wrapper"}))
        vimEekContainer == querySelector(regulatoryWrapper, ByClass({"vim", "x-eek"}))
        productFicheValues ==
            querySelector(vimEekContainer,
                          ByClass({"x-eek__values", "x-eek__product-fiche"}))
        inValues == querySelector(productFicheValues, ByClass({"x-eek__product-link"}))
        productLink ==
            IF inValues # Null
              THEN inValues
              ELSE querySelector(vimEekContainer, ByClass({"x-eek__product-link"}))
        href == getAttribute(productLink, "href")
        linkText == textContent(productLink)
        hasValidHref ==
            href # <<>> /\ ~includes(href, Words.javascript) /\ Len(href) > 5
        hasProductText == includes(toLowerCase(linkText), Words.produktdatenblatt)
    IN IF regulatoryWrapper = Null THEN FALSE
       ELSE IF vimEekContainer = Null THEN FALSE
       ELSE IF productFicheValues = Null THEN FALSE
       ELSE IF productLink = Null THEN FALSE
       ELSE hasValidHref /\ hasProductText

\* checkEnergielabel as a shallow match: an icon anywhere in the wrapper,
\* or EEK text.
checkEnergielabel_Shallow(dom) ==
    LET regulatoryWrapper == querySelector(dom, ByClass({"x-regulatory-wrapper"}))
    IN /\ regulatoryWrapper # Null
       /\ \/ querySelector(regulatoryWrapper, ByClass({"ux-eek-icon"})) # Null
          \/ EekPattern(textContent(regulatoryWrapper))

\* DomAnalyzer.checkEnergielabel: the nested path, then the first
\* .fake-link of the container, then the rating.
checkEnergielabel(dom) ==
    LET regulatoryWrapper == querySelector(dom, ByClass({"x-regulatory-wrapper"}))
        vimEekContainer == querySelector(regulatoryWrapper, ByClass({"vim", "x-eek"}))
        iconOverlayWrapper ==
            querySelector(vimEekContainer, ByClass({"x-eek__icon-overlay-wrapper"}))
        uxEekIcon == querySelector(iconOverlayWrapper, ByClass({"ux-eek-icon"}))
        eekElement == querySelector(uxEekIcon, ByClass({"eek"}))
        fakeLink == querySelector(vimEekContainer, ByClass({"fake-link"}))
        isFakeEekButton == EekPattern(textContent(fakeLink))
        eekRating == querySelector(eekElement, ByClass({"eek__rating"}))
        hasRatingContent ==
            eekRating # Null /\ Len(trim(textContent(eekRating))) > 0
    IN IF regulatoryWrapper = Null THEN FALSE
       ELSE IF vimEekContainer = Null THEN FALSE
       ELSE IF iconOverlayWrapper = Null THEN FALSE
       ELSE IF uxEekIcon = Null THEN FALSE
       ELSE IF eekElement = Null THEN FALSE
       ELSE IF fakeLink # Null /\ isFakeEekButton THEN FALSE
       ELSE hasRatingContent

\* The loop body of checkMouseOver for one overlay: the nested path down
\* to the image and the tests of its src and alt.
completeStructure(overlay) ==
    LET infotipMask == querySelector(overlay, ByClass({"infotip__mask"}))
        infotipCell == querySelector(infotipMask, ByClass({"infotip__cell"}))
        infotipContent == querySelector(infotipCell, ByClass({"infotip__content"}))
        uxImage == querySelector(infotipContent, ByClass({"ux-image"}))
        img == querySelector(uxImage, Selector("img", {}, {}))
        src == getAttribute(img, "src")
        alt == getAttribute(img, "alt")
        isEbayImage == includes(toLowerCase(src), Words.ebayimg)
        isEnergyImage ==
            \/ includes(toLowerCase(alt), Words.eek)
            \/ includes(toLowerCase(alt), Words.energy)
            \/ ClassLetter(alt)
    IN IF infotipMask = Null THEN FALSE
       ELSE IF infotipCell = Null THEN FALSE
       ELSE IF infotipContent = Null THEN FALSE
       ELSE IF uxImage = Null THEN FALSE
       ELSE IF img = Null THEN FALSE
       ELSE isEbayImage /\ isEnergyImage

\* dom.querySelector('.infotip__overlay img[src*="ebayimg"]') finds an
\* element: an image below an overlay whose src attribute contains the
\* word as it is written.
anyEbayImage(dom) ==
    \E i \in 1..Len(querySelectorAll(dom, ByClass({"infotip__overlay"}))) :
        LET overlay == querySelectorAll(dom, ByClass({"infotip__overlay"}))[i]
            imgs == querySelectorAll(overlay, Selector("img", {}, {"src"}))
        IN \E j \in 1..Len(imgs) : includes(imgs[j].src, Words.ebayimg)

\* checkMouseOver without its test of the regulatory wrapper.
checkMouseOver_NoWrapper(dom) ==
    LET infotipOverlays == querySelectorAll(dom, ByClass({"infotip__overlay"}))
    IN IF Len(infotipOverlays) = 0 THEN FALSE
       ELSE IF \E i \in 1..Len(infotipOverlays) :
                  completeStructure(infotipOverlays[i]) THEN TRUE
       ELSE anyEbayImage(dom)

\* DomAnalyzer.checkMouseOver: the loop over the overlays of the document,
\* then the secondary check.
checkMouseOver(dom) ==
    LET regulatoryWrapper == querySelector(dom, ByClass({"x-regulatory-wrapper"}))
        infotipOverlays == querySelectorAll(dom, ByClass({"infotip__overlay"}))
    IN IF regulatoryWrapper = Null THEN FALSE
       ELSE IF Len(infotipOverlays) = 0 THEN FALSE
       ELSE IF \E i \in 1..Len(infotipOverlays) :
                  completeStructure(infotipOverlays[i]) THEN TRUE
       ELSE anyEbayImage(dom)

\* DomAnalyzer.parseHTML: the document, or threw when the JSDOM import
\* failed or new JSDOM throws; the empty string parses to a document
\* without elements of its own.
parseHTML(htmlString) ==
    IF htmlString.kind = "unparseable"
      THEN [threw |-> TRUE, document |-> Null]
      ELSE [threw |-> FALSE, document |-> htmlString.document]

\* DomAnalyzer.performDetailedAnalysis: no try block of its own, so that a
\* failure of parseHTML leaves it as an exception.
performDetailedAnalysis(htmlString) ==
    LET dom == parseHTML(htmlString)
    IN IF dom.threw
         THEN [threw |-> TRUE, produktdatenblatt |-> FALSE,
               energielabel |-> FALSE, mouseover |-> FALSE]
         ELSE [threw |-> FALSE,
               produktdatenblatt |-> checkProduktdatenblatt(dom.document),
               energielabel |-> checkEnergielabel(dom.document),
               mouseover |-> checkMouseOver(dom.document)]

\* ScraperService.createErrorResult: three labels Error and an error text
\* chosen by the words of the message.
createErrorResult(message) ==
    [via |-> "scrapeEbayURL", thrown |-> FALSE,
     productFiche |-> "Error", energyLabel |-> "Error",
     mouseoverLabel |-> "Error",
     error |-> IF Includes(message, "timeout") THEN MsgTimeout
               ELSE IF Includes(message, "network") \/ Includes(message, "HTTP")
                 THEN "Network connection failed"
               ELSE IF Includes(message, "navigation")
                 THEN "Network connection failed"
               ELSE "Unknown error"]

YN(found) == IF found THEN "Y" ELSE "N"

\* scrapeEbayURL without its catch block: the exception of the analysis
\* leaves the call.
scrapeContent_NoCatch(content) ==
    LET domAnalysis == performDetailedAnalysis(content)
    IN [via |-> "scrapeEbayURL", thrown |-> domAnalysis.threw,
        productFiche |-> YN(domAnalysis.produktdatenblatt),
        energyLabel |-> YN(domAnalysis.energielabel),
        mouseoverLabel |-> YN(domAnalysis.mouseover),
        error |-> "unset"]

\* scrapeEbayURL from the content of the page to its return value: the
\* analysis and the labels made of it in the try block, createErrorResult
\* in the catch block.
scrapeContent(content) ==
    LET domAnalysis == performDetailedAnalysis(content)
    IN IF domAnalysis.threw
         THEN createErrorResult("Failed to parse HTML into DOM structure")
         ELSE [via |-> "scrapeEbayURL", thrown |-> FALSE,
               productFiche |-> YN(domAnalysis.produktdatenblatt),
               energyLabel |-> YN(domAnalysis.energielabel),
               mouseoverLabel |-> YN(domAnalysis.mouseover),
               error |-> "unset"]

\* EnergyParser.checkProductFiche: the first
\* '.x-eek__product-link[href]' of the document and its text.
checkProductFiche(document) ==
    LET link == querySelector(document,
                              Selector("*", {"x-eek__product-link"}, {"href"}))
    IN YN(link # Null
          /\ includes(toLowerCase(textContent(link)),
                      Words.produktdatenblatt))

\* EnergyParser.checkEnergyLabel: an icon in the wrapper, or the text
\* /EEK\s*[A-G][+]{0,3}|Energy\s*Rating/i in it.
checkEnergyLabel(document) ==
    LET wrapper == querySelector(document, ByClass({"x-regulatory-wrapper"}))
        icon == querySelector(wrapper, ByClass({"ux-eek-icon"}))
        text == \/ EekPattern(textContent(wrapper))
                \/ SpacedPair(toLowerCase(textContent(wrapper)), Words.energy,
                           Words.rating)
    IN IF wrapper = Null THEN "N" ELSE YN(icon # Null \/ text)

\* EnergyParser.checkMouseoverLabel: '.infotip__mask' and
\* '.infotip__mask img, .infotip__content img' in the document.
checkMouseoverLabel(document) ==
    LET mask == querySelector(document, ByClass({"infotip__mask"}))
        holders == querySelectorAll(document, ByClass({"infotip__mask"}))
                     \o querySelectorAll(document, ByClass({"infotip__content"}))
        img == \E i \in 1..Len(holders) :
                  querySelector(holders[i], Selector("img", {}, {})) # Null
    IN YN(mask # Null /\ img)

\* EnergyParser.analyzeHTML: everything in one try block, whose catch
\* block returns three labels ERROR and the message.
analyzeHTML(content) ==
    IF content.kind = "empty" \/ content.kind = "unparseable"
      THEN [via |-> "analyzeHTML", thrown |-> FALSE,
            productFiche |-> "ERROR", energyLabel |-> "ERROR",
            mouseoverLabel |-> "ERROR",
            error |-> IF content.kind = "empty"
                        THEN "Empty HTML content provided"
                        ELSE "message of the error of new JSDOM"]
      ELSE [via |-> "analyzeHTML", thrown |-> FALSE,
            productFiche |-> checkProductFiche(content.document),
            energyLabel |-> checkEnergyLabel(content.document),
            mouseoverLabel |-> checkMouseoverLabel(content.document),
            error |-> "unset"]

\* ------------------------------------------------------ the pages analysed
MaxFakeLinks == 2

\* The texts and attribute values of the pages.
Texts ==
    [eek |-> <<"E", "E", "K", " ", "A", "+">>,
     info |-> <<"I", "n", "f", "o">>,
     rating |-> <<"A">>,
     blank |-> <<" ">>,
     produktdatenblatt |-> <<"P", "r", "o", "d", "u", "k", "t", "d", "a", "t",
                             "e", "n", "b", "l", "a", "t", "t">>,
     mehr |-> <<"M", "e", "h", "r">>,
     hrefPdf |-> <<"/", "f", ".", "p", "d", "f">>,
     hrefScript |-> <<"j", "a", "v", "a", "s", "c", "r", "i", "p", "t", ":",
                      ";">>,
     srcEbay |-> <<"i", ".", "e", "b", "a", "y", "i", "m", "g", ".", "c", "o",
                   "m">>,
     srcOther |-> <<"c", "d", "n", ".", "d", "e">>,
     altEek |-> <<"E", "E", "K">>,
     altDigit |-> <<"1">>]

Anchor(cls, href, text) ==
    [Elem("a", cls, text, <<>>) EXCEPT !.has = {"href"}, !.href = href]
Image(src, alt) ==
    [Elem("img", {}, <<>>, <<>>) EXCEPT !.has = {"src", "alt"}, !.src = src,
                                       !.alt = alt]
Document(kids) == Elem("#document", {}, <<>>, <<Elem("body", {}, <<>>, kids)>>)

\* The element with kids as its children, or, where it is left out, its
\* children in its place.
Wrap(present, cls, kids) ==
    IF present THEN <<Elem("div", cls, <<>>, kids)>> ELSE kids

\* The shapes of the regulatory section of a listing: which elements of
\* the three nested paths are there, the fake links of the energy
\* container, where the product link is and what it holds, and the image
\* of the overlay.
PageShapes ==
    LET fakeSeqs ==
            UNION { [1..n -> {Texts.eek, Texts.info}] : n \in 0..MaxFakeLinks }
        validLink == [href |-> Texts.hrefPdf, text |-> Texts.produktdatenblatt]
        linkKinds ==
            { validLink,
              [href |-> Texts.hrefScript, text |-> Texts.produktdatenblatt],
              [href |-> Texts.hrefPdf, text |-> Texts.mehr] }
    IN { p \in [wrapper : BOOLEAN, vim : BOOLEAN,
                energy : {"whole", "noIcon", "noRating", "blankRating"},
                fakes : fakeSeqs,
                fiche : BOOLEAN, linkIn : {"fiche", "vim", "none"},
                link : linkKinds,
                overlay : BOOLEAN, mouse : {"whole", "noMask", "noImg"},
                src : {Texts.srcEbay, Texts.srcOther},
                alt : {Texts.altEek, Texts.altDigit}] :
           /\ p.linkIn = "fiche" => p.fiche
           /\ (p.linkIn = "none" \/ ~p.fiche) => p.link = validLink
           /\ (p.mouse = "noImg" \/ ~p.overlay)
                 => p.src = Texts.srcEbay /\ p.alt = Texts.altEek
           /\ ~p.overlay => p.mouse = "whole" }

Page(p) ==
    LET fakeLinks ==
            [i \in 1..Len(p.fakes) |->
                Elem("span", {"fake-link"}, p.fakes[i], <<>>)]
        eekRating ==
            IF p.energy = "noRating" THEN <<>>
            ELSE <<Elem("span", {"eek__rating"},
                        IF p.energy = "blankRating" THEN Texts.blank
                                                    ELSE Texts.rating,
                        <<>>)>>
        energyPath ==
            Wrap(TRUE, {"x-eek__icon-overlay-wrapper"},
                 Wrap(p.energy # "noIcon", {"ux-eek-icon"},
                      Wrap(TRUE, {"eek"}, eekRating)))
        productLink == Anchor({"x-eek__product-link"}, p.link.href, p.link.text)
        productFiche ==
            Wrap(p.fiche, {"x-eek__values", "x-eek__product-fiche"},
                 IF p.linkIn = "fiche" THEN <<productLink>> ELSE <<>>)
        vimEek ==
            Wrap(p.vim, {"vim", "x-eek"},
                 fakeLinks \o energyPath \o productFiche
                   \o (IF p.linkIn = "vim" THEN <<productLink>> ELSE <<>>))
        infotip ==
            Wrap(p.overlay, {"infotip__overlay"},
                 Wrap(p.mouse # "noMask", {"infotip__mask"},
                      Wrap(TRUE, {"infotip__cell"},
                           Wrap(TRUE, {"infotip__content"},
                                Wrap(TRUE, {"ux-image"},
                                     IF p.mouse = "noImg" THEN <<>>
                                     ELSE <<Image(p.src, p.alt)>>)))))
    IN Document(Wrap(p.wrapper, {"x-regulatory-wrapper"}, vimEek) \o infotip)

\* scrapeEbayURL analyses the content of its page.
ScrapeContent ==
    /\ html.kind # "none"
    /\ analysis = NoAnalysis
    /\ analysis' = scrapeContent(html)
    /\ UNCHANGED <<engineVars, scraperVars, limiterVars, html>>

\* EnergyParser.analyzeHTML is called with the content.
AnalyzeHTML ==
    /\ html.kind # "none"
    /\ analysis = NoAnalysis
    /\ analysis' = analyzeHTML(html)
    /\ UNCHANGED <<engineVars, scraperVars, limiterVars, html>>

NextAnalyzer == ScrapeContent \/ AnalyzeHTML

\* What page.content() can hand to the analysis: the markup of a page, the
\* empty string, or markup that new JSDOM does not parse.
InitAnalyzer ==
    /\ ProgramInit
    /\ urlOf = [r \in Rows |-> UrlFor(r)]
    /\ html \in { [kind |-> "markup", document |-> Page(p)] : p \in PageShapes }
                \cup { [kind |-> "empty", document |-> Document(<<>>)],
                       [kind |-> "unparseable", document |-> Null] }
    /\ analysis = NoAnalysis

SpecAnalyzer == InitAnalyzer /\ [][NextAnalyzer]_vars

\* ================================================================ claims
Processing == { r \in Rows : rows[r].status = PROCESSING }
BatchRows(k) == { runs[k].batch[i] : i \in DOMAIN runs[k].batch }

\* The startAnalysis call k returns through completeAnalysis in this step.
Completes(k) == runs[k].phase # "completed" /\ runs'[k].phase = "completed"

\* C1: when startAnalysis(B) returns after normal completion, with
\* stopAnalysis never invoked during the run, every row of B is Completed
\* or Error.
C1_AllRowsSettled ==
    [][\A k \in RunIds :
         (Completes(k) /\ ~runs'[k].stopped) =>
            \A r \in BatchRows(k) : rows'[r].status \in {COMPLETED, ERROR}]_vars

\* C2: in every reachable state at most maxConcurrentRequests rows are
\* Processing.
C2_ConcurrencyBound == Cardinality(Processing) <= maxConcurrentRequests

\* C3: while the run is paused, and until resumeAnalysis or stopAnalysis
\* is called, no row goes from Pending to Processing and no row is removed
\* from processingQueue.
C3_PauseHoldsDispatch ==
    [][(isPaused /\ ~ResumeAnalysis /\ ~StopAnalysis) =>
          /\ processingQueue' = processingQueue
          /\ \A r \in Rows : rows[r].status = PENDING =>
                                rows'[r].status # PROCESSING]_vars

\* The fetches a worker of run k is waiting for.
Fetching(W, k) == { w \in BagToSet(W) : w.run = k /\ w.pc = "fetch" }

\* C4: after stopAnalysis no worker of the stopped run dispatches a row any
\* more (no row becomes Processing through it).
C4_NoDispatchAfterStop ==
    [][\A k \in RunIds :
         runs[k].stopped =>
            \A w \in Fetching(workers', k) :
                CopiesIn(w, workers') <= CopiesIn(w, workers)]_vars

\* C5: after stopAnalysis the counters processedRows, successfulRows and
\* errorRows do not change any more (until a new run initialises them).
C5_CountersFrozenAfterStop ==
    [][(isStopped /\ isStopped') =>
          /\ processedRows' = processedRows
          /\ successfulRows' = successfulRows
          /\ errorRows' = errorRows]_vars

\* C6: at most one run is active at a time: of two startAnalysis calls that
\* overlap only one initialises the counters and the queue and launches
\* workers.
C6_SingleActiveRun ==
    \A j, k \in RunIds :
        (/\ runs[j].phase = "running" /\ ~runs[j].stopped
         /\ runs[k].phase = "running" /\ ~runs[k].stopped) => j = k

\* C7: analyzeURL calls for the same URL that overlap in time share one
\* makeRequest, and observe the identical outcome: the same value, or the
\* same error (message and code).
C7_IdenticalOutcome ==
    /\ \A p, q \in requests : p.url = q.url => p = q
    /\ \A a, b \in lastSettle.seen :
          a.ok = b.ok /\ a.value = b.value /\ a.error = b.error

\* C8: the registry has an entry for url u if and only if an analyzeURL
\* operation for u has been started and has not settled.
C8_RegistryIffInFlight ==
    \A u \in Urls : (activeRequests[u] # 0) <=> (\E q \in requests : q.url = u)

\* A makeRequest has just rejected with a retryable error: none of its
\* attempts succeeded and none met a non-retryable error.
Exhausted == lastSettle.kind = "rejected" /\ ~shouldNotRetry(lastSettle.error)

\* C9: a request whose every attempt fails with a retryable error makes
\* exactly maxRetries + 1 performRequest calls before makeRequest rejects.
C9_ExactAttempts == Exhausted => lastSettle.calls = maxRetries + 1

C9_Witness == Exhausted /\ lastSettle.calls = maxRetries + 1

NonRetryable == {MsgInvalidUrl, MsgRateLimit}

C11_NoRetryNoBackoff ==
    /\ \A q \in requests : q.lastError \notin NonRetryable
    /\ \A q \in requests : q.calls = q.attempt + 1 \/ q.phase = "backoff"
    /\ (lastSettle.kind = "rejected" /\ lastSettle.error \in NonRetryable)
          => lastSettle.calls \in 1..(maxRetries + 1)

C11_Witness ==
    /\ lastSettle.kind = "rejected"
    /\ lastSettle.error \in NonRetryable
    /\ lastSettle.calls = 1

\* C20: after stopAnalysis no performRequest call begins for an operation
\* that was outstanding at the stop.
C20_NoAttemptAfterStop ==
    [][isStopped =>
         \A q \in requests, p \in requests' :
             (p.id = q.id /\ p.url = q.url) => p.calls = q.calls]_vars

\* ======================================================= respectRateLimit
\* Math.random() * 1000 + 500 ms, in ticks.
Jitters == {1, 2}

Pacer(pc, wake) == [pc |-> pc, wake |-> wake]

\* A timer of respectRateLimit is due.
Due == \E p \in BagToSet(pacers) : p.pc \in {"minWait", "jitter"} /\ p.wake <= clock

RateLimitStep(P, t, e, n, end) ==
    /\ pacers' = P
    /\ lastRequestTime' = t
    /\ entered' = e
    /\ requestCount' = n
    /\ lastEnd' = end
    /\ UNCHANGED <<clock, engineVars, browser, isInitialized, inactivityTimer,
                   pendingTimers, instances, closing, calls, arrived, faults, lastDown,
                   lastReturn, html, analysis>>

\* A scrapeEbayURL call enters respectRateLimit: it reads the clock and
\* lastRequestTime and waits for the rest of the minimum delay, or, when
\* that has passed, for the jitter.
EnterRateLimit ==
    /\ entered < MaxCalls
    /\ LET timeSinceLastRequest == clock - lastRequestTime
       IN IF timeSinceLastRequest < ebayMinDelay
            THEN RateLimitStep(
                   pacers (+) SetToBag({Pacer("minWait",
                       clock + (ebayMinDelay - timeSinceLastRequest))}),
                   lastRequestTime, entered + 1, requestCount, lastEnd)
            ELSE \E j \in Jitters :
                   RateLimitStep(
                     pacers (+) SetToBag({Pacer("jitter", clock + j)}),
                     lastRequestTime, entered + 1, requestCount, lastEnd)

\* The delay up to the minimum is over: the jitter delay starts.
MinWaitDone(p) ==
    /\ p.pc = "minWait"
    /\ p.wake = clock
    /\ \E j \in Jitters :
          RateLimitStep((pacers (-) SetToBag({p}))
                          (+) SetToBag({Pacer("jitter", clock + j)}),
                        lastRequestTime, entered, requestCount, lastEnd)

\* The jitter delay is over: lastRequestTime is set, the request counted
\* and respectRateLimit returns; the scrape takes renderDelay at least.
PassRateLimit(p) ==
    /\ p.pc = "jitter"
    /\ p.wake = clock
    /\ RateLimitStep((pacers (-) SetToBag({p}))
                        (+) SetToBag({Pacer("render", clock + renderDelay)}),
                      clock, entered, requestCount + 1, lastEnd)

\* The scrapeEbayURL call returns.
EndRequest(p) ==
    /\ p.pc = "render"
    /\ p.wake <= clock
    /\ RateLimitStep(pacers (-) SetToBag({p}), lastRequestTime, entered,
                     requestCount, clock)

\* Time passes while no timer is due.
Tick ==
    /\ clock < ebayMinDelay + MaxTicks
    /\ ~Due
    /\ clock' = clock + 1
    /\ UNCHANGED <<engineVars, scraperVars, lastRequestTime, pacers, entered,
                   lastEnd, html, analysis>>

NextRateLimit ==
    \/ EnterRateLimit
    \/ \E p \in BagToSet(pacers) : MinWaitDone(p)
    \/ \E p \in BagToSet(pacers) : PassRateLimit(p)
    \/ \E p \in BagToSet(pacers) : EndRequest(p)
    \/ Tick

SpecRateLimit == InitScraper /\ [][NextRateLimit]_vars

\* ------------------------------------------------- claims on the scraper
\* The service's reference, when set, is a connected browser.
BrowserRefConnected == browser # 0 => instances[browser] = "open"

\* C12: a request whose url fails the validity test never reaches the
\* browser: it is answered in the task of its arrival, so it is never
\* suspended at a launch, at the rate limit or at a page.
C12_InvalidNeverWaits == \A w \in BagToSet(calls) : w.url = "valid"

\* C13: at most one launched browser is open, and it is the one
\* this.browser refers to.
C13_SingleBrowser == \A i \in InstanceIds : instances[i] = "open" => browser = i

\* C14: every page a scrapeEbayURL call created is closed and out of
\* activePages when the call returns, on success and on failure; so
\* activePages holds only open pages of calls in flight that are between
\* the creation of their page and their finally block.
C14_PagesReleased ==
    /\ lastReturn.outcome # "none" =>
          /\ lastReturn.page \in {"none", "closed"}
          /\ ~lastReturn.listed
    /\ \A w \in activePages(calls) :
          w.page = "open" /\ w.pc \in {"nav", "navDelay", "content"}
    /\ activePagesSize(calls) <= BagCardinality(calls)

C14_Witness ==
    /\ lastReturn.outcome # "none"
    /\ lastReturn.result = "error"
    /\ lastReturn.page = "closed"

\* C15: at most one page is in activePages at any time.
C15_SingleRender == activePagesSize(calls) <= 1

\* C17: a call for a valid url that arrives after closeBrowser has closed
\* the browser, and that no failure of the environment strikes, launches a
\* browser and returns a result that is no error.
C17_ReopensAfterClose ==
    /\ \A w \in BagToSet(calls) :
          (w.met = "closed" /\ w.pc \in {"newPage", "nav", "content"})
             => instances[w.inst] = "open"
    /\ (lastReturn.outcome # "none" /\ lastReturn.met = "closed"
          /\ lastReturn.url = "valid")
         => /\ lastReturn.result = "ok"
            /\ lastReturn.outcome \in {"200", "returned"}

C17_Witness ==
    /\ lastReturn.outcome \in {"200", "returned"}
    /\ lastReturn.met = "closed"

\* C18: a call whose browser disconnects before the call has its result
\* returns an error result (it is never stuck and it does not throw), and
\* a call that arrives after the disconnect, if no further failure strikes
\* it, launches a browser, uses a connected one and returns a result that
\* is no error.
HitCallGoesOn(w) ==
    \/ ENABLED PageRefused(w)
    \/ ENABLED NavFail(w)
    \/ ENABLED NavRetry(w)
    \/ ENABLED ContentDone(w)
    \/ ENABLED PageCloseDone(w)

C19_SingleNavigation ==
    /\ \A w \in BagToSet(calls) : w.navs <= 1
    /\ lastReturn.outcome # "none" => lastReturn.navs <= 1

\* C19 amended: within one scrapeEbayURL call the target is navigated at
\* most maxAttempts times.
C19_BoundedNavigation ==
    /\ \A w \in BagToSet(calls) : w.navs <= maxAttempts
    /\ lastReturn.outcome # "none" => lastReturn.navs <= maxAttempts

C19_Witness ==
    /\ lastReturn.outcome # "none"
    /\ lastReturn.navs = maxAttempts
    /\ lastReturn.result = "error"

\* C16: no call passes respectRateLimit less than the minimum delay after
\* the end of the previous request; a request ends after it has passed, so
\* no call passes less than the minimum delay after the pass of the
\* previous one either.
C16_MinimumSpacing ==
    [][requestCount' # requestCount =>
          /\ clock - lastRequestTime >= ebayMinDelay
          /\ lastEnd # 0 => clock - lastEnd >= ebayMinDelay]_vars


\* The number of workers in their pacing delay before the next row.
Pacing(W) ==
    BagCardinality([w \in {x \in BagToSet(W) : x.pc = "delay"} |-> W[w]])

\* C21: a failure while processing a row is contained in processRow.  When
\* a fetch rejects, every row that awaited it ends in Error with its error
\* message, the run is not stopped and the queue is left as it is, and each
\* worker that awaited it goes on to its pacing delay before the next row
\* when rows remain; when the run then completes without stop, every row of
\* the batch is Completed or Error (a row without URL included).
C21_FailureContained ==
    [][/\ lastSettle'.kind = "rejected" =>
            /\ \A o \in lastSettle'.seen :
                  rows'[o.row].status = ERROR /\ rows'[o.row].err = "set"
            /\ isStopped' = isStopped
            /\ processingQueue' = processingQueue
            /\ processingQueue # <<>> =>
                  Pacing(workers') =
                     Pacing(workers) + Cardinality(lastSettle'.seen)
       /\ \A k \in RunIds :
            (Completes(k) /\ ~runs'[k].stopped) =>
               \A r \in BatchRows(k) : rows'[r].status \in {COMPLETED, ERROR}
      ]_vars

\* The run has completed without stop, a row without URL and a row whose
\* fetch was rejected are in Error, and the row queued behind them was
\* processed all the same.
C21_Witness ==
    /\ runs[FirstRun].phase = "completed" /\ ~runs[FirstRun].stopped
    /\ urlOf[3] = NoUrl /\ rows[3].status = ERROR
    /\ rows[1].status = ERROR /\ rows[1].err = "set"
    /\ rows[4].status = COMPLETED
    /\ processedRows = 4


\* C22: a row's status changes only along Pending -> Processing ->
\* {Completed | Error}: no row goes from Processing back to Pending, and a
\* row enters Completed or Error only from Processing, never from Pending
\* (a row without URL is set to Processing and then to Error within the one
\* task that dequeues it, so its step from Pending to Error passes through
\* Processing).
C22_StrictOrder ==
    [][\A r \in Rows :
         /\ ~(rows[r].status = PROCESSING /\ rows'[r].status = PENDING)
         /\ (rows'[r].status \in {COMPLETED, ERROR}
                /\ rows'[r].status # rows[r].status) =>
               \/ rows[r].status = PROCESSING
               \/ /\ rows[r].status = PENDING
                  /\ urlOf[r] = NoUrl
                  /\ rows'[r].status = ERROR]_vars


\* C23: for every row, the three label fields are set if and only if the
\* status is Completed, and _errorMessage is set if and only if the status
\* is Error.
C23_FieldsMatchStatus ==
    \A r \in Rows :
        /\ (rows[r].cls # "unset") <=> (rows[r].status = COMPLETED)
        /\ (rows[r].err = "set") <=> (rows[r].status = ERROR)


\* The processRow invocations in flight for row r: the workers between
\* setting the row to Processing and the finally block, awaiting the fetch.
InFlight(r) ==
    BagCardinality([w \in {x \in BagToSet(workers) :
                              x.pc = "fetch" /\ x.row = r} |-> workers[w]])

\* C24: at every moment there is at most one in-flight processRow
\* invocation for any given row.
C24_OneWorkerPerRow == \A r \in Rows : InFlight(r) <= 1


\* The rows the workers dequeue in this step: the first rows of the batch
\* when startAnalysis launches its workers, the head of the queue when a
\* worker leaves its pacing delay or its pause poll.
Launches(k) ==
    runs[k].phase = "health" /\ runs'[k].phase \in {"running", "completed"}

Dequeued ==
    IF \E k \in RunIds : Launches(k)
      THEN LET k == CHOOSE j \in RunIds : Launches(j)
               b == runs'[k].batch
           IN { b[i] : i \in 1..(Len(b) - Len(processingQueue')) }
    ELSE IF /\ processingQueue # <<>>
            /\ processingQueue' = Tail(processingQueue)
            /\ ~isStopped'
      THEN { Head(processingQueue) }
    ELSE {}

\* C25: a row that is Processing or Completed when a worker dequeues it is
\* not dispatched: no processRow invocation begins to await a fetch for it
\* and its status and result fields are left as they are.
C25_GuardedRowSkipped ==
    [][\A r \in Dequeued :
         rows[r].status \in {PROCESSING, COMPLETED} =>
            /\ rows'[r] = rows[r]
            /\ InFlight(r)' = InFlight(r)]_vars

\* The batch held row 2 twice and the run completed without stop and
\* without a failure: row 2 is Completed, and its second occurrence was
\* dequeued and passed over, so fewer rows were counted than the batch
\* holds.
C25_Witness ==
    /\ runs[FirstRun].phase = "completed" /\ ~runs[FirstRun].stopped
    /\ rows[2].status = COMPLETED
    /\ errorRows = 0
    /\ processedRows < totalRows


\* C26: every run terminates.  When every fetch settles and the run is not
\* left paused forever, a startAnalysis call that has launched its workers
\* eventually returns, and isProcessing is false then.
C26_RunTerminates ==
    ([]<>(~isPaused)) =>
        ((runs[FirstRun].phase = "running")
            ~> (runs[FirstRun].phase = "completed" /\ ~isProcessing))

\* The run was stopped, its workers have all returned, no request is
\* outstanding and startAnalysis has returned.
C26_Witness ==
    /\ runs[FirstRun].phase = "completed" /\ runs[FirstRun].stopped
    /\ ~isProcessing
    /\ workers = EmptyBag
    /\ requests = {}


\* C27: when a run completes without stop, processedRows equals totalRows
\* (the length of the batch) and successfulRows + errorRows equals
\* totalRows.
C27_EveryRowCounted ==
    [][\A k \in RunIds :
         (Completes(k) /\ ~runs'[k].stopped) =>
            /\ totalRows' = Len(runs'[k].batch)
            /\ processedRows' = totalRows'
            /\ successfulRows' + errorRows' = totalRows']_vars


\* Row r has been taken from the queue and set to Processing in this run
\* (stopAnalysis may have set it back to Pending with its fetch in flight).
Dispatched(r) == rows[r].status # PENDING \/ InFlight(r) > 0

\* C28: rows are dispatched in the order of the batch: when a row has been
\* dispatched, every row before it in the batch has been dispatched too,
\* and the queue holds the rows not yet taken in the order of the batch,
\* whatever the order in which the fetches settle.
C28_FifoDispatch ==
    LET b == runs[FirstRun].batch
    IN /\ \A i, j \in DOMAIN b :
             (i < j /\ Dispatched(b[j])) => Dispatched(b[i])
       /\ (runs[FirstRun].phase = "running" /\ ~isStopped) =>
             processingQueue =
                SubSeq(b, Len(b) - Len(processingQueue) + 1, Len(b))

\* The fetch of row 3 settled before that of row 1, and row 4 was
\* dispatched after it.
C28_Witness ==
    /\ Len(runs[FirstRun].batch) = NumRows
    /\ rows[1].status = PROCESSING
    /\ rows[3].status = COMPLETED
    /\ rows[NumRows].status = PROCESSING


\* The labels of the value a call returned.
ReturnedLabels ==
    LET v == resultValue(lastReturn.result)
    IN {v.productFiche, v.energyLabel, v.mouseoverLabel}

SessionClosed ==
    /\ browser = 0
    /\ ~isInitialized
    /\ activePagesSize(calls) = 0
    /\ ~inactivityTimer

\* C30: closeBrowser, called by cleanup() or by the idle timer, always ends
\* with the Session Closed, whether it had a browser to close (it ends
\* when browser.close() has resolved) or not (it ends at once).
C30_EndsClosed ==
    [][(\/ CloseResume
        \/ browser = 0 /\ \E cause \in {"timer", "cleanup"} : CloseStart(cause))
          => SessionClosed']_vars


\* --------------------------------------------- claims on the page analysis
\* Some chain of elements, each inside the one before it, carries the
\* classes of path in turn below e.
RECURSIVE Nested(_, _)
Nested(e, path) ==
    \/ path = <<>>
    \/ \E i \in 1..Len(querySelectorAll(e, ByClass(Head(path)))) :
          Nested(querySelectorAll(e, ByClass(Head(path)))[i], Tail(path))

EnergyLabelPath ==
    << {"x-regulatory-wrapper"}, {"vim", "x-eek"},
       {"x-eek__icon-overlay-wrapper"}, {"ux-eek-icon"}, {"eek"} >>

\* The elements of class .fake-link below e whose text matches the EEK
\* pattern.
FakeEekControls(e) ==
    SelectSeq(querySelectorAll(e, ByClass({"fake-link"})),
              LAMBDA x : EekPattern(textContent(x)))

Scraped == html.kind = "markup" /\ analysis.via = "scrapeEbayURL"

\* C31: for a page that holds a fake EEK control (.fake-link with EEK text)
\* but not the nested path .x-regulatory-wrapper > .vim.x-eek >
\* .x-eek__icon-overlay-wrapper > .ux-eek-icon > .eek, scrapeEbayURL
\* returns energyLabel = N.
C31_FakeControlAbsent ==
    (/\ Scraped
     /\ FakeEekControls(html.document) # <<>>
     /\ ~Nested(html.document, EnergyLabelPath))
       => analysis.energyLabel = "N"

\* Such a page has been analysed, and a match of the wrapper's icon or
\* text alone would have found a label on it.
C31_Witness ==
    /\ Scraped
    /\ FakeEekControls(html.document) # <<>>
    /\ ~Nested(html.document, EnergyLabelPath)
    /\ checkEnergielabel_Shallow(html.document)
    /\ analysis.energyLabel = "N"


ProductFicheAncestors ==
    << {"x-regulatory-wrapper"}, {"vim", "x-eek"},
       {"x-eek__values", "x-eek__product-fiche"} >>

MouseOverAncestors ==
    << {"infotip__overlay"}, {"infotip__mask"}, {"infotip__cell"},
       {"infotip__content"}, {"ux-image"} >>

\* C33 as stated: each of the three labels is N whenever the elements above
\* the leaf of its path are not all there, nested in that order (for the
\* mouseover label: the overlay path and a regulatory wrapper).
C33_AncestorsRequired ==
    Scraped =>
        /\ ~Nested(html.document, ProductFicheAncestors)
              => analysis.productFiche = "N"
        /\ ~Nested(html.document, EnergyLabelPath)
              => analysis.energyLabel = "N"
        /\ ~(/\ Nested(html.document, << {"x-regulatory-wrapper"} >>)
             /\ Nested(html.document, MouseOverAncestors))
              => analysis.mouseoverLabel = "N"

\* C33: the product-fiche and the energy label are N whenever the elements
\* above the leaf of their path are not all there, nested in that order;
\* all three labels are N on a page without .x-regulatory-wrapper, and the
\* mouseover label is N on a page without .infotip__overlay.
C33_AncestorsOrOverlay ==
    Scraped =>
        /\ ~Nested(html.document, ProductFicheAncestors)
              => analysis.productFiche = "N"
        /\ ~Nested(html.document, EnergyLabelPath)
              => analysis.energyLabel = "N"
        /\ (\/ ~Nested(html.document, << {"x-regulatory-wrapper"} >>)
            \/ ~Nested(html.document, << {"infotip__overlay"} >>))
              => analysis.mouseoverLabel = "N"

\* A page without the wrapper whose three paths are whole below the place
\* of the wrapper, an ebayimg image below the overlay included: all three
\* labels are N.
C33_Witness ==
    /\ Scraped
    /\ ~Nested(html.document, << {"x-regulatory-wrapper"} >>)
    /\ Nested(html.document, Tail(ProductFicheAncestors)
                               \o << {"x-eek__product-link"} >>)
    /\ Nested(html.document, Tail(EnergyLabelPath) \o << {"eek__rating"} >>)
    /\ Nested(html.document, MouseOverAncestors)
    /\ anyEbayImage(html.document)
    /\ analysis.productFiche = "N"
    /\ analysis.energyLabel = "N"
    /\ analysis.mouseoverLabel = "N"


\* The energy container of the page: the first .vim.x-eek of its first
\* regulatory wrapper.
EnergyContainer ==
    querySelector(querySelector(html.document,
                                ByClass({"x-regulatory-wrapper"})),
                  ByClass({"vim", "x-eek"}))

\* C34: whenever the energy container holds a .fake-link whose text matches
\* the EEK pattern, scrapeEbayURL returns energyLabel = N, whatever else
\* the page holds.
C34_ExclusionWins ==
    (Scraped /\ FakeEekControls(EnergyContainer) # <<>>)
        => analysis.energyLabel = "N"


\* The analysis of the content fails: new JSDOM throws or is missing, or
\* analyzeHTML was handed the empty string.
AnalysisFailed ==
    \/ html.kind = "unparseable" /\ analysis.via # "none"
    \/ html.kind = "empty" /\ analysis.via = "analyzeHTML"

\* C35: when the analysis of the content fails, scrapeEbayURL and
\* analyzeHTML return (nothing is thrown out of them) a result whose three
\* labels are the error label and whose error field is set.
C35_FailureIsErrorResult ==
    AnalysisFailed =>
        /\ ~analysis.thrown
        /\ analysis.productFiche \in {"Error", "ERROR"}
        /\ analysis.energyLabel \in {"Error", "ERROR"}
        /\ analysis.mouseoverLabel \in {"Error", "ERROR"}
        /\ analysis.error # "unset"

\* scrapeEbayURL has returned the error result for content that did not
\* parse.
C35_Witness ==
    /\ html.kind = "unparseable"
    /\ analysis.via = "scrapeEbayURL"
    /\ analysis.productFiche = "Error"
    /\ analysis.error = "Unknown error"


\* C32: at most one inactivity timeout of the ScraperService is set and
\* has neither run nor been cleared, in every state that calls, closes and
\* disconnects of the browser can reach.
C32_OneTimerPending == pendingTimers <= 1

\* A call has passed resetActivityTimer with the browser up, after
\* initBrowser had started a timer: one timeout is pending, and it is the
\* one that this.inactivityTimer holds.
C32_Witness ==
    /\ \E w \in BagToSet(calls) : w.pc = "rateLimit"
    /\ browser # 0
    /\ isInitialized
    /\ inactivityTimer
    /\ pendingTimers = 1


\* --------------------------------------- claims on runs that were stopped
\* C36: processedRows never exceeds totalRows, whatever startAnalysis and
\* stopAnalysis calls and settlements of requests have happened.
C36_ProcessedWithinTotal == processedRows <= totalRows


\* C37: a worker of a run that stopAnalysis has ended takes no row from
\* processingQueue: when such a worker leaves its pacing delay or its pause
\* poll, the queue is left as it is.
C37_StoppedWorkerTakesNoRow ==
    [][\A w \in BagToSet(workers) :
         (/\ runs[w.run].stopped
          /\ w.pc \in {"delay", "poll"}
          /\ CopiesIn(w, workers') < CopiesIn(w, workers))
            => Len(processingQueue') >= Len(processingQueue)]_vars


\* C38: completeAnalysis runs only for a run that drained its queue: no
\* startAnalysis call whose run stopAnalysis has ended returns through
\* completeAnalysis, and so isProcessing is not cleared under a later run.
C38_NoCompletionAfterStop ==
    [][\A k \in RunIds : Completes(k) => ~runs[k].stopped]_vars


\* C39: the registry entry of an analyzeURL operation that is still in
\* flight is not removed when another operation settles: only
\* cancelAllRequests (called by stopAnalysis) takes it away.
C39_SettlementKeepsLaterEntry ==
    [][~StopAnalysis =>
         \A q \in requests :
            (/\ activeRequests[q.url] = q.id
             /\ \E p \in requests' : p.id = q.id /\ p.url = q.url)
               => activeRequests'[q.url] = q.id]_vars


\* C40: a worker that stopAnalysis found in the pause poll leaves its loop
\* when it wakes: in the step in which it leaves the poll no row is taken
\* from processingQueue and no fetch of its run begins.
C40_StopReleasesPollers ==
    [][\A w \in BagToSet(workers) :
         (/\ w.pc = "poll"
          /\ runs[w.run].stopped
          /\ CopiesIn(w, workers') < CopiesIn(w, workers))
            => /\ Len(processingQueue') >= Len(processingQueue)
               /\ \A f \in Fetching(workers', w.run) :
                     CopiesIn(f, workers') <= CopiesIn(f, workers)]_vars

====
